---- MODULE Spec2Model ----
(***************************************************************************)
(* Model of the car_brand_sales dashboards: the cleaning pipeline          *)
(* (dash_app.preprocess_data and the inline block of streamlit_app), the   *)
(* column classification and the Dash callbacks update_dropdowns and       *)
(* update_graph.                                                           *)
(*                                                                         *)
(* A table is [cols, dtype, rows]: cols the column names in order, dtype   *)
(* the storage type pandas gave each column, rows a sequence of            *)
(* [i |-> index label, c |-> [column -> cell]].  A cell is [k, v] with k   *)
(* one of "num", "str", "bool", "nan" (a missing value).  Quantiles are    *)
(* held exactly, scaled by 100 (the code's float rounding is not           *)
(* modelled).                                                              *)
(***************************************************************************)
EXTENDS Integers, Sequences, FiniteSets

\* ------------------------------------------------------------------ bounds
MaxRows == 4

\* ------------------------------------------------------------------- cells
NaN == [k |-> "nan", v |-> 0]
Num(n) == [k |-> "num", v |-> n]
Str(n) == [k |-> "str", v |-> n]
Bool(n) == [k |-> "bool", v |-> n]

Range(s) == {s[n] : n \in DOMAIN s}

\* The cell values a CSV field of each kind can hold (NaN: an empty field).
Prices == {Num(1), Num(2), Num(3)}
Years == {Num(1), Num(2)}
Brands == {Str(1), Str(2)}
Flags == {Bool(0), Bool(1)}

\* The CSV layouts uploaded: column names in order, and the fields of each.
Layouts ==
  { <<"brand", "price">>, <<"price", "year">>, <<"brand", "sold">> }

Fields(cols, col) ==
  IF cols = <<"brand", "price">>
  THEN (IF col = "brand" THEN Brands ELSE Prices \cup {NaN})
  ELSE IF cols = <<"price", "year">>
  THEN (IF col = "price" THEN Prices ELSE Years)
  ELSE (IF col = "brand" THEN {Str(1), NaN} ELSE Flags \cup {NaN})

\* ------------------------------------------------------------ pd.read_csv
\* The storage type read_csv infers for a column from its cells.
InferDtype(cells) ==
  IF cells = {} THEN "object"
  ELSE IF cells = {NaN} THEN "float64"
  ELSE IF \A x \in cells : x.k \in {"num", "nan"}
  THEN (IF NaN \in cells THEN "float64" ELSE "int64")
  ELSE IF \A x \in cells : x.k = "bool" THEN "bool"
  ELSE "object"

\* read_csv: a RangeIndex from 0 and one inferred dtype per column.
ReadCsv(cols, body) ==
  [ cols |-> cols,
    dtype |-> [col \in Range(cols) |-> InferDtype({body[n][col] : n \in DOMAIN body})],
    rows |-> [n \in DOMAIN body |-> [i |-> n - 1, c |-> body[n]]] ]

NoTable == [cols |-> <<>>, dtype |-> [col \in {} |-> "object"], rows |-> <<>>]

\* ------------------------------------------------------------ the cleaning
\* drop_duplicates(): keep="first", rows compared on all columns (NaN equals NaN).
\* (With keep="last" the last row of each group would stay.)
DropDuplicatesKeepsLast(rows) ==
  SelectSeq(rows, LAMBDA r : ~ \E q \in Range(rows) : q.i > r.i /\ q.c = r.c)
DropDuplicates(rows) ==
  SelectSeq(rows, LAMBDA r : ~ \E q \in Range(rows) : q.i < r.i /\ q.c = r.c)

\* dropna(): how="any", a row goes when any of its cells is missing.
\* (With how="all" a row would go only when all of its cells are missing.)
DropNaHowAll(rows) ==
  SelectSeq(rows, LAMBDA r : \E col \in DOMAIN r.c : r.c[col] # NaN)
DropNa(rows) ==
  SelectSeq(rows, LAMBDA r : \A col \in DOMAIN r.c : r.c[col] # NaN)

\* select_dtypes(include=...).columns: the columns of those dtypes, in table order.
SelectDtypes(t, include) ==
  SelectSeq(t.cols, LAMBDA col : t.dtype[col] \in include)

\* The non-missing values of a column, ascending (quantile skips NaN).
RECURSIVE SortValues(_)
SortValues(s) ==
  IF s = <<>> THEN <<>>
  ELSE LET m == CHOOSE n \in DOMAIN s : \A j \in DOMAIN s : s[n] <= s[j]
       IN <<s[m]>> \o SortValues(SubSeq(s, 1, m - 1) \o SubSeq(s, m + 1, Len(s)))

ColumnValues(rows, col) ==
  LET present == SelectSeq(rows, LAMBDA r : r.c[col].k = "num")
  IN [n \in DOMAIN present |-> present[n].c[col].v]

\* Series.quantile of an empty Series is NaN (an "err" result stands for a
\* call that raises instead).
QuantileEmptyRaises == [k |-> "err", v |-> 0]
QuantileEmpty == NaN

\* Series.quantile(p/100), interpolation="linear", times 100:
\* position (n-1)*p/100 between the order statistics.
\* (With interpolation="nearest" the closer order statistic would be taken.)
QuantileNearest(rows, col, p) ==
  LET s == SortValues(ColumnValues(rows, col))
      h == (Len(s) - 1) * p
      lo == h \div 100
      frac == h % 100
  IN IF Len(s) = 0 THEN QuantileEmpty
     ELSE IF frac <= 50 THEN Num(100 * s[lo + 1]) ELSE Num(100 * s[lo + 2])
Quantile(rows, col, p) ==
  LET s == SortValues(ColumnValues(rows, col))
      h == (Len(s) - 1) * p
      lo == h \div 100
      frac == h % 100
  IN IF Len(s) = 0 THEN QuantileEmpty
     ELSE IF frac = 0 THEN Num(100 * s[lo + 1])
     ELSE Num(100 * s[lo + 1] + frac * (s[lo + 2] - s[lo + 1]))

\* cell >= q and cell <= q on a float: False whenever either side is NaN.
Ge(x, q) == x.k = "num" /\ q.k = "num" /\ 100 * x.v >= q.v
Le(x, q) == x.k = "num" /\ q.k = "num" /\ 100 * x.v <= q.v

\* df_cleaned[(df_cleaned[col] >= q_low) & (df_cleaned[col] <= q_high)]
DashFilter(rows, col, q_low, q_high) ==
  SelectSeq(rows, LAMBDA r : Ge(r.c[col], q_low) /\ Le(r.c[col], q_high))

\* Series.between(left, right): inclusive="both".
\* (With inclusive="neither" both comparisons would be strict.)
BetweenNeither(x, left, right) ==
  x.k = "num" /\ left.k = "num" /\ right.k = "num"
  /\ 100 * x.v > left.v /\ 100 * x.v < right.v
Between(x, left, right) == Ge(x, left) /\ Le(x, right)

\* ---------------------------------------------------------------- the state
VARIABLES
  pc,              \* the statement of update_dropdowns / preprocess_data to run next
  df,              \* the frame read from the upload (the caller's object)
  df_cleaned,      \* preprocess_data's local frame
  alias,           \* whether df_cleaned is the same object as df
  numeric_cols,    \* preprocess_data's numeric_cols
  n,               \* position of the for loop in numeric_cols
  raised,          \* an exception left preprocess_data
  dd_numeric,      \* update_dropdowns' numeric_cols
  dd_categorical,  \* update_dropdowns' categorical_cols
  processed_df,    \* streamlit_app's processed_df
  st_numeric,      \* streamlit_app's numeric_cols
  st_categorical,  \* streamlit_app's categorical_cols
  orig,            \* history: the uploaded frame as read
  cuts,            \* history: <<col, q_low, q_high>> of every trimming done
  prev,            \* history: the result of the cleaning before this one
  pass,            \* history: 1 for an upload, 2 for a cleaned table cleaned again
  contents,        \* Dash: upload-data.contents, as the frame read_csv makes of it
  x_col,           \* Dash: x-axis.value
  y_col,           \* Dash: y-axis.value
  chart_type,      \* Dash: chart-type.value
  file_info,       \* Dash: the cleaned row count shown in file-info, -1 for ""
  pending,         \* Dash: the callbacks an input change has triggered
  result           \* Dash: what the last call of update_graph returned or raised

pipeVars ==
  << pc, df, df_cleaned, alias, numeric_cols, n, raised, dd_numeric,
     dd_categorical, processed_df, st_numeric, st_categorical, orig, cuts,
     prev, pass >>

uiVars == << contents, x_col, y_col, chart_type, file_info, pending, result >>

vars == << pipeVars, uiVars >>

\* Python's None as a dropdown value.
None == "None"

\* No call of update_graph yet.
NoResult == [out |-> "none", kind |-> "bar", x |-> None, y |-> None, data |-> NoTable]

NumericDtypes == {"float64", "int64"}
CategoricalDtypes == {"object", "category"}

\* The uploads: every CSV body of at most MaxRows rows of every layout.
CsvRows(cols) ==
  { r \in [Range(cols) -> UNION {Fields(cols, col) : col \in Range(cols)}] :
      \A col \in Range(cols) : r[col] \in Fields(cols, col) }

Bodies(cols) == UNION { [1..k -> CsvRows(cols)] : k \in 0..MaxRows }

Init ==
  /\ \E cols \in Layouts : \E body \in Bodies(cols) : df = ReadCsv(cols, body)
  /\ orig = df
  /\ pc = "copy"
  /\ df_cleaned = NoTable
  /\ alias = FALSE
  /\ numeric_cols = <<>>
  /\ n = 0
  /\ raised = FALSE
  /\ dd_numeric = <<>>
  /\ dd_categorical = <<>>
  /\ processed_df = NoTable
  /\ st_numeric = <<>>
  /\ st_categorical = <<>>
  /\ cuts = <<>>
  /\ prev = NoTable
  /\ pass = 1
  /\ contents = NoTable
  /\ x_col = None
  /\ y_col = None
  /\ chart_type = "bar"
  /\ file_info = -1
  /\ pending = {}
  /\ result = NoResult

\* ------------------------------------------- dash_app.preprocess_data, by line
\* df.copy() is a new object (a plain assignment would be the same object).
CopyIsSameObject == TRUE
CopyAliases == FALSE

\* df_cleaned = df.copy()
Copy ==
  /\ pc = "copy"
  /\ df_cleaned' = df
  /\ alias' = CopyAliases
  /\ pc' = "drop_duplicates"
  /\ UNCHANGED << df, numeric_cols, n, raised, dd_numeric, dd_categorical,
                  processed_df, st_numeric, st_categorical, orig, cuts, prev, pass >>
  /\ UNCHANGED uiVars

\* df_cleaned.drop_duplicates(inplace=True)
DropDuplicatesInplace ==
  /\ pc = "drop_duplicates"
  /\ df_cleaned' = [df_cleaned EXCEPT !.rows = DropDuplicates(@)]
  /\ df' = IF alias THEN df_cleaned' ELSE df
  /\ pc' = "dropna"
  /\ UNCHANGED << alias, numeric_cols, n, raised, dd_numeric, dd_categorical,
                  processed_df, st_numeric, st_categorical, orig, cuts, prev, pass >>
  /\ UNCHANGED uiVars

\* df_cleaned.dropna(inplace=True)
DropNaInplace ==
  /\ pc = "dropna"
  /\ df_cleaned' = [df_cleaned EXCEPT !.rows = DropNa(@)]
  /\ df' = IF alias THEN df_cleaned' ELSE df
  /\ pc' = "select_dtypes"
  /\ UNCHANGED << alias, numeric_cols, n, raised, dd_numeric, dd_categorical,
                  processed_df, st_numeric, st_categorical, orig, cuts, prev, pass >>
  /\ UNCHANGED uiVars

\* numeric_cols = df_cleaned.select_dtypes(include=["float64", "int64"]).columns
SelectNumeric ==
  /\ pc = "select_dtypes"
  /\ numeric_cols' = SelectDtypes(df_cleaned, NumericDtypes)
  /\ n' = 1
  /\ pc' = "for"
  /\ UNCHANGED << df, df_cleaned, alias, raised, dd_numeric, dd_categorical,
                  processed_df, st_numeric, st_categorical, orig, cuts, prev, pass >>
  /\ UNCHANGED uiVars

\* The frame the quantiles of the loop body are taken from: the current
\* df_cleaned (and not the frame as it stood before the loop).
QuantileOfUpload(cleaned, uploaded) == DropNa(DropDuplicates(uploaded.rows))
QuantileFrame(cleaned, uploaded) == cleaned.rows

\* One iteration of the loop: the two quantiles, then the filter, which binds
\* df_cleaned to a new frame.
TrimColumn ==
  /\ pc = "for"
  /\ n <= Len(numeric_cols)
  /\ LET col == numeric_cols[n]
         q_low == Quantile(QuantileFrame(df_cleaned, df), col, 1)
         q_high == Quantile(QuantileFrame(df_cleaned, df), col, 99)
     IN IF q_low.k = "err" \/ q_high.k = "err"
        THEN /\ raised' = TRUE
             /\ pc' = "raised"
             /\ UNCHANGED << df_cleaned, alias, n, cuts >>
        ELSE /\ df_cleaned' =
                  [df_cleaned EXCEPT !.rows = DashFilter(@, col, q_low, q_high)]
             /\ alias' = FALSE
             /\ n' = n + 1
             /\ cuts' = Append(cuts, << col, q_low, q_high >>)
             /\ UNCHANGED << raised, pc >>
  /\ UNCHANGED << df, numeric_cols, dd_numeric, dd_categorical, processed_df,
                  st_numeric, st_categorical, orig, prev, pass >>
  /\ UNCHANGED uiVars

\* return df_cleaned
Return ==
  /\ pc = "for"
  /\ n > Len(numeric_cols)
  /\ pc' = "classify"
  /\ UNCHANGED << df, df_cleaned, alias, numeric_cols, n, raised, dd_numeric,
                  dd_categorical, processed_df, st_numeric, st_categorical,
                  orig, cuts, prev, pass >>
  /\ UNCHANGED uiVars

\* update_dropdowns, after preprocess_data returned: the two column lists.
Classify ==
  /\ pc = "classify"
  /\ dd_numeric' = SelectDtypes(df_cleaned, NumericDtypes)
  /\ dd_categorical' = SelectDtypes(df_cleaned, CategoricalDtypes)
  /\ pc' = "streamlit"
  /\ UNCHANGED << df, df_cleaned, alias, numeric_cols, n, raised, processed_df,
                  st_numeric, st_categorical, orig, cuts, prev, pass >>
  /\ UNCHANGED uiVars

\* ------------------------------------------ streamlit_app, the cleaning block
StFilter(rows, col) ==
  SelectSeq(rows, LAMBDA r :
    Between(r.c[col], Quantile(rows, col, 1), Quantile(rows, col, 99)))

RECURSIVE StTrimFrom(_, _, _)
StTrimFrom(rows, num_cols, k) ==
  IF k > Len(num_cols) THEN rows
  ELSE StTrimFrom(StFilter(rows, num_cols[k]), num_cols, k + 1)

StCleaning(uploaded) ==
  [uploaded EXCEPT !.rows =
     StTrimFrom(DropNa(DropDuplicates(@)), SelectDtypes(uploaded, NumericDtypes), 1)]

StNumericDtypes == {"float64", "int64"}
StCategoricalDtypes == {"object", "category"}

\* One run of the script on the same upload: the cleaning block and the two lists.
StreamlitRun ==
  /\ pc = "streamlit"
  /\ processed_df' = StCleaning(df)
  /\ st_numeric' = SelectDtypes(processed_df', StNumericDtypes)
  /\ st_categorical' = SelectDtypes(processed_df', StCategoricalDtypes)
  /\ pc' = "done"
  /\ UNCHANGED << df, df_cleaned, alias, numeric_cols, n, raised, dd_numeric,
                  dd_categorical, orig, cuts, prev, pass >>
  /\ UNCHANGED uiVars

\* The cleaned table is given to the cleaning again.
CleanAgain ==
  /\ pc = "done"
  /\ pass = 1
  /\ df' = df_cleaned
  /\ orig' = df_cleaned
  /\ prev' = df_cleaned
  /\ pass' = 2
  /\ pc' = "copy"
  /\ df_cleaned' = NoTable
  /\ alias' = FALSE
  /\ numeric_cols' = <<>>
  /\ n' = 0
  /\ dd_numeric' = <<>>
  /\ dd_categorical' = <<>>
  /\ processed_df' = NoTable
  /\ st_numeric' = <<>>
  /\ st_categorical' = <<>>
  /\ cuts' = <<>>
  /\ UNCHANGED raised
  /\ UNCHANGED uiVars

Next ==
  \/ Copy
  \/ DropDuplicatesInplace
  \/ DropNaInplace
  \/ SelectNumeric
  \/ TrimColumn
  \/ Return
  \/ Classify
  \/ StreamlitRun
  \/ CleanAgain

Spec == Init /\ [][Next]_vars

\* ------------------------------------------------- dash_app, the callbacks
\* preprocess_data as one call.
RECURSIVE DashTrimFrom(_, _, _)
DashTrimFrom(rows, num_cols, k) ==
  IF k > Len(num_cols) THEN rows
  ELSE DashTrimFrom(
         DashFilter(rows, num_cols[k],
                    Quantile(rows, num_cols[k], 1), Quantile(rows, num_cols[k], 99)),
         num_cols, k + 1)

preprocess_data(uploaded) ==
  [uploaded EXCEPT !.rows =
     DashTrimFrom(DropNa(DropDuplicates(@)), SelectDtypes(uploaded, NumericDtypes), 1)]

\* The files a user uploads to the Dash page: brand and price; brand and a
\* boolean; brand and a price written as text.
DashFiles ==
  { ReadCsv(<<"brand", "price">>,
            << [brand |-> Str(1), price |-> Num(1)], [brand |-> Str(2), price |-> Num(1)],
               [brand |-> Str(1), price |-> Num(2)], [brand |-> Str(1), price |-> Num(3)] >>),
    ReadCsv(<<"brand", "sold">>,
            << [brand |-> Str(1), sold |-> Bool(1)], [brand |-> Str(2), sold |-> Bool(0)] >>),
    ReadCsv(<<"brand", "price">>,
            << [brand |-> Str(1), price |-> Str(1)], [brand |-> Str(2), price |-> Str(2)] >>) }

ChartTypes == {"bar", "box", "scatter", "pie"}

\* The options update_dropdowns gave the two dropdowns.
XOptions == Range(dd_categorical \o dd_numeric)
YOptions == Range(dd_numeric)

pipeRest ==
  << pc, df, df_cleaned, alias, numeric_cols, n, raised, processed_df,
     st_numeric, st_categorical, orig, cuts, prev, pass >>

\* The page as served: nothing uploaded, "bar" chosen, both callbacks called once.
DashInit ==
  /\ contents = NoTable
  /\ x_col = None
  /\ y_col = None
  /\ chart_type = "bar"
  /\ file_info = -1
  /\ pending = {"update_dropdowns", "update_graph"}
  /\ result = NoResult
  /\ pc = "idle"
  /\ df = NoTable
  /\ orig = NoTable
  /\ df_cleaned = NoTable
  /\ alias = FALSE
  /\ numeric_cols = <<>>
  /\ n = 0
  /\ raised = FALSE
  /\ dd_numeric = <<>>
  /\ dd_categorical = <<>>
  /\ processed_df = NoTable
  /\ st_numeric = <<>>
  /\ st_categorical = <<>>
  /\ cuts = <<>>
  /\ prev = NoTable
  /\ pass = 1

\* The user acts on the page once the callbacks of the last change have run.
\* The user drops another file on upload-data: both callbacks have it as Input.
Upload ==
  /\ pending = {}
  /\ \E f \in DashFiles :
       /\ f # contents
       /\ contents' = f
  /\ pending' = {"update_dropdowns", "update_graph"}
  /\ UNCHANGED << x_col, y_col, chart_type, file_info, result, dd_numeric,
                  dd_categorical, pipeRest >>

\* The user picks or clears the X-axis value among the options shown.
SelectX ==
  /\ pending = {}
  /\ \E c \in XOptions \cup {None} :
       /\ c # x_col
       /\ x_col' = c
  /\ pending' = {"update_graph"}
  /\ UNCHANGED << contents, y_col, chart_type, file_info, result, dd_numeric,
                  dd_categorical, pipeRest >>

\* The user picks or clears the Y-axis value among the options shown.
SelectY ==
  /\ pending = {}
  /\ \E c \in YOptions \cup {None} :
       /\ c # y_col
       /\ y_col' = c
  /\ pending' = {"update_graph"}
  /\ UNCHANGED << contents, x_col, chart_type, file_info, result, dd_numeric,
                  dd_categorical, pipeRest >>

\* The user picks a chart type (the dropdown is not clearable).
SelectChartType ==
  /\ pending = {}
  /\ \E k \in ChartTypes :
       /\ k # chart_type
       /\ chart_type' = k
  /\ pending' = {"update_graph"}
  /\ UNCHANGED << contents, x_col, y_col, file_info, result, dd_numeric,
                  dd_categorical, pipeRest >>

\* update_dropdowns(contents, filename)
update_dropdowns ==
  /\ "update_dropdowns" \in pending
  /\ pending' = pending \ {"update_dropdowns"}
  /\ IF contents = NoTable
     THEN /\ file_info' = -1
          /\ dd_numeric' = <<>>
          /\ dd_categorical' = <<>>
     ELSE LET cleaned == preprocess_data(contents)
          IN /\ dd_numeric' = SelectDtypes(cleaned, NumericDtypes)
             /\ dd_categorical' = SelectDtypes(cleaned, CategoricalDtypes)
             /\ file_info' = Len(cleaned.rows)
  /\ UNCHANGED << contents, x_col, y_col, chart_type, result, pipeRest >>

\* plotly express raises ValueError for an argument that names no column of
\* the frame; an argument left None is filled in by plotly.
PxAccepts(data, col) == col = None \/ col \in Range(data.cols)

\* The guard of update_graph: the placeholder is returned when it holds.
NothingToPlot == contents = NoTable \/ x_col = None

\* update_graph(contents, x_col, y_col, chart_type)
update_graph ==
  /\ "update_graph" \in pending
  /\ pending' = pending \ {"update_graph"}
  /\ IF NothingToPlot
     THEN result' = [out |-> "placeholder", kind |-> chart_type, x |-> x_col,
                     y |-> y_col, data |-> NoTable]
     ELSE LET cleaned == preprocess_data(contents)
              y_arg == IF chart_type = "pie" THEN None ELSE y_col
          IN result' = [out |-> IF PxAccepts(cleaned, x_col) /\ PxAccepts(cleaned, y_arg)
                                THEN "chart" ELSE "error",
                        kind |-> chart_type, x |-> x_col, y |-> y_arg, data |-> cleaned]
  /\ UNCHANGED << contents, x_col, y_col, chart_type, file_info, dd_numeric,
                  dd_categorical, pipeRest >>

DashNext ==
  \/ Upload
  \/ SelectX
  \/ SelectY
  \/ SelectChartType
  \/ update_dropdowns
  \/ update_graph

DashSpec == DashInit /\ [][DashNext]_vars

\* =================================================================== claims
\* preprocess_data has returned to update_dropdowns.
Returned == pc \in {"classify", "streamlit", "done"}

\* The rows left by the first two steps of the cleaning of the upload.
Complete == DropNa(DropDuplicates(orig.rows))

\* s holds rows of t, in t's order (index labels ascend in every table).
IsSubsequence(s, t) ==
  /\ \A r \in Range(s) : r \in Range(t)
  /\ \A a, b \in DOMAIN s : a < b => s[a].i < s[b].i

HasCopies(rows) == \E a, b \in DOMAIN rows : a # b /\ rows[a].c = rows[b].c

FirstOccurrences(rows, uploaded) ==
  \A r \in Range(rows) : ~ \E q \in Range(uploaded) : q.i < r.i /\ q.c = r.c

HasMissing(rows) == \E r \in Range(rows) : \E col \in DOMAIN r.c : r.c[col] = NaN

\* C1: the cleaned table of either front-end holds no two rows with equal cells,
\* and a row that survives is the first of its group of identical uploaded rows.
C1_NoDuplicateRows ==
  /\ Returned =>
       ~ HasCopies(df_cleaned.rows) /\ FirstOccurrences(df_cleaned.rows, orig.rows)
  /\ pc = "done" =>
       ~ HasCopies(processed_df.rows) /\ FirstOccurrences(processed_df.rows, orig.rows)

\* An upload with identical rows, one of which survives the whole cleaning.
C1_Witness ==
  /\ pc = "done"
  /\ \E r \in Range(df_cleaned.rows) : \E q \in Range(orig.rows) : q.i > r.i /\ q.c = r.c
  /\ processed_df.rows # <<>>

\* C2: no row of the cleaned table of either front-end has a missing cell.
C2_NoMissingCell ==
  /\ Returned => ~ HasMissing(df_cleaned.rows)
  /\ pc = "done" => ~ HasMissing(processed_df.rows)

\* An upload with a missing cell whose cleaning leaves rows.
C2_Witness ==
  /\ pc = "done"
  /\ HasMissing(orig.rows)
  /\ df_cleaned.rows # <<>>
  /\ processed_df.rows # <<>>

\* The percentile as the claim words it, from counts and not from a sort: the
\* k-th order statistic (k from 0) of column col of rows, and the p-th
\* percentile times 100 by linear interpolation at position (n-1)*p/100.
OrderStatistic(rows, col, k) ==
  CHOOSE x \in {r.c[col].v : r \in Range(rows)} :
    /\ Cardinality({a \in DOMAIN rows : rows[a].c[col].v < x}) <= k
    /\ Cardinality({a \in DOMAIN rows : rows[a].c[col].v <= x}) > k

Percentile100(rows, col, p) ==
  LET h == (Len(rows) - 1) * p
      lo == h \div 100
      frac == h % 100
      a == OrderStatistic(rows, col, lo)
  IN IF frac = 0 THEN 100 * a
     ELSE 100 * a + frac * (OrderStatistic(rows, col, lo + 1) - a)

\* The numeric columns of the upload in the table's column order.
NumericInOrder == SelectSeq(orig.cols, LAMBDA col : orig.dtype[col] \in {"float64", "int64"})

\* The rows after the trimming of the first k numeric columns, each on the
\* rows its predecessors left.
RECURSIVE TrimmedAfter(_)
TrimmedAfter(k) ==
  IF k = 0 THEN Complete
  ELSE LET before == TrimmedAfter(k - 1)
           col == NumericInOrder[k]
       IN IF before = <<>> THEN <<>>
          ELSE SelectSeq(before, LAMBDA r :
                 /\ Percentile100(before, col, 1) <= 100 * r.c[col].v
                 /\ 100 * r.c[col].v <= Percentile100(before, col, 99))

\* C3: trimming is sequential and cumulative, in column order, with inclusive
\* bounds at the 1st and 99th percentile of the rows still present; every
\* value left lies within the bounds computed when its column was trimmed.
C3_SequentialTrimming ==
  /\ pc = "for" => n >= 1 /\ df_cleaned.rows = TrimmedAfter(n - 1)
  /\ Returned => df_cleaned.rows = TrimmedAfter(Len(NumericInOrder))
  /\ pc \in {"for"} \cup {"classify", "streamlit", "done"} =>
       /\ \A k \in DOMAIN cuts :
            /\ cuts[k][1] = NumericInOrder[k]
            /\ TrimmedAfter(k - 1) # <<>> =>
                 /\ cuts[k][2] = Num(Percentile100(TrimmedAfter(k - 1), cuts[k][1], 1))
                 /\ cuts[k][3] = Num(Percentile100(TrimmedAfter(k - 1), cuts[k][1], 99))
            /\ \A r \in Range(df_cleaned.rows) :
                 Ge(r.c[cuts[k][1]], cuts[k][2]) /\ Le(r.c[cuts[k][1]], cuts[k][3])

\* Two numeric columns trimmed, the first trimming removing a row and so moving
\* the bounds of the second, with rows left at the end.
C3_Witness ==
  /\ pc = "done"
  /\ Len(cuts) = 2
  /\ Len(TrimmedAfter(1)) < Len(Complete)
  /\ cuts[2][3] # Quantile(Complete, cuts[2][1], 99)
  /\ df_cleaned.rows # <<>>

\* C4: the two column lists of update_dropdowns partition the columns of the
\* cleaned table, each in table order.
C4_Partition ==
  Returned /\ pc # "classify" =>
    /\ Range(dd_numeric) \cup Range(dd_categorical) = Range(df_cleaned.cols)
    /\ Range(dd_numeric) \cap Range(dd_categorical) = {}
    /\ dd_numeric = SelectSeq(df_cleaned.cols, LAMBDA col : col \in Range(dd_numeric))
    /\ dd_categorical = SelectSeq(df_cleaned.cols, LAMBDA col : col \in Range(dd_categorical))

\* C6: on an upload without rows, or whose rows all go in the first two steps,
\* nothing is raised and the result is the zero-row table of the same columns;
\* the quantiles of the empty column are NaN and bound nothing.
C6_TotalOnEmpty ==
  /\ ~ raised
  /\ pc # "raised"
  /\ Complete = <<>> =>
       /\ \A k \in DOMAIN cuts : cuts[k][2] = NaN /\ cuts[k][3] = NaN
       /\ Returned => df_cleaned = [orig EXCEPT !.rows = <<>>]
       /\ pc = "done" => processed_df = [orig EXCEPT !.rows = <<>>]

\* An upload with rows, all removed before the trimming of a numeric column.
C6_Witness ==
  /\ pc = "done"
  /\ orig.rows # <<>>
  /\ Complete = <<>>
  /\ Len(cuts) >= 1

\* C7: the uploaded frame is never changed; the result is another frame of the
\* same columns whose rows are a subsequence of the upload's.
C7_InputUnchanged ==
  /\ df = orig
  /\ Returned =>
       /\ ~ alias
       /\ df_cleaned.cols = orig.cols
       /\ IsSubsequence(df_cleaned.rows, orig.rows)
  /\ pc = "done" =>
       /\ processed_df.cols = orig.cols
       /\ IsSubsequence(processed_df.rows, orig.rows)

\* A cleaning that removed rows in place and by trimming, and left some.
C7_Witness ==
  /\ pc = "done"
  /\ HasCopies(orig.rows)
  /\ Len(df_cleaned.rows) < Len(Complete)
  /\ df_cleaned.rows # <<>>

\* A once-cleaned table: prices 1, 1, 2 told apart by the brand.
OnceCleaned ==
  << [brand |-> Str(1), price |-> Num(1)],
     [brand |-> Str(2), price |-> Num(1)],
     [brand |-> Str(1), price |-> Num(2)] >>

\* C8: a second cleaning keeps a subsequence of the rows of the first, and is
\* not the identity: of the cleaned table OnceCleaned it removes a row.
C8_NotIdempotent ==
  pass = 2 /\ Returned =>
    /\ IsSubsequence(df_cleaned.rows, prev.rows)
    /\ [k \in DOMAIN prev.rows |-> prev.rows[k].c] = OnceCleaned =>
         Len(df_cleaned.rows) < Len(prev.rows)

\* The second cleaning of OnceCleaned, itself the result of a first cleaning
\* that trimmed a row, has removed a row and left two.
C8_Witness ==
  /\ pass = 2
  /\ pc = "done"
  /\ [k \in DOMAIN prev.rows |-> prev.rows[k].c] = OnceCleaned
  /\ ~ HasMissing(prev.rows)
  /\ ~ HasCopies(prev.rows)
  /\ Len(df_cleaned.rows) = 2

\* C9: both front-ends leave the same rows in the same order and the same
\* two column lists.
C9_FrontEndsAgree ==
  pc = "done" =>
    /\ processed_df = df_cleaned
    /\ st_numeric = dd_numeric
    /\ st_categorical = dd_categorical

\* A cleaning whose trimming removed a row and kept one that lies on a bound.
C9_Witness ==
  /\ pc = "done"
  /\ Len(df_cleaned.rows) < Len(Complete)
  /\ \E k \in DOMAIN cuts : \E r \in Range(processed_df.rows) :
       100 * r.c[cuts[k][1]].v = cuts[k][2].v

\* The inputs the chart type of the last call requires were all selected.
RequiredSelected ==
  /\ result.x # None
  /\ result.kind \in {"bar", "box", "scatter"} => result.y # None

\* C5: update_graph builds a chart exactly when the inputs its chart type
\* requires are selected (x and y for bar, box and scatter, x alone for pie),
\* and returns the placeholder otherwise.
C5_ValidatesSelection ==
  result.out # "none" =>
    /\ result.out = "chart" <=> RequiredSelected
    /\ ~ RequiredSelected => result.out = "placeholder"

\* C10: whenever update_graph builds a chart, its x column, and for bar, box
\* and scatter its selected y column, is a column of the table cleaned from
\* the current upload, and that y column is numeric there (a y left
\* unselected is the matter of C5).
C10_SelectionFitsUpload ==
  result.out = "chart" =>
    /\ result.x \in Range(result.data.cols)
    /\ result.kind # "pie" /\ result.y # None =>
         result.y \in Range(SelectDtypes(result.data, NumericDtypes))

\* The line-by-line run of preprocess_data and the one-call form used by the
\* callbacks give the same frame.
StepsAgreeWithCall == Returned => df_cleaned = preprocess_data(orig)

====
